---- MODULE Spec2Model ----
(***************************************************************************)
(* MLCCM: RBF resampling pipeline (src/src/mesh_interp.py and              *)
(* src/src/reverse_interp.py).                                             *)
(*                                                                         *)
(*  - mesh_gen: the geometry filter over the n x n lattice of [0,30]^2.    *)
(*  - interpolator / inv_interpolator: the streaming record transformers   *)
(*    with their 100-record batch and the header rule of the output file.  *)
(*  - main (both modules): the grid x method x file sweep and the metrics  *)
(*    table.                                                               *)
(*                                                                         *)
(* Coordinates are exact rationals.  A coordinate is an integer numerator  *)
(* over a common denominator d: the lattice of np.linspace(0, 30, n) is    *)
(* 30*i/(n-1), so d = n-1; hand-picked points are given in hundredths,     *)
(* d = 100.                                                                *)
(***************************************************************************)
EXTENDS Integers, Sequences, FiniteSets, TLC

(* ------------------------------------------------------------------ *)
(* Program constants                                                  *)
(* ------------------------------------------------------------------ *)

GRIDS == <<20, 30, 40>>
METHODS == <<"linear", "cubic", "multiquadric">>
BUFF_TSHOLD == 100
\* range(0, 20): timesteps per record
NSTEPS == 20
\* the element count the forward transform slices by
N_EL == 564

\* file stems of the configured input tables
X_TRAIN == "x_train"
X_TEST == "x_test"
\* mesh_interp.IN_FILES and reverse_interp.IN_FILES
IN_FILES == <<X_TRAIN, X_TEST>>
INV_IN_FILES == <<X_TRAIN>>

(* ------------------------------------------------------------------ *)
(* Bounds of the model                                                *)
(* ------------------------------------------------------------------ *)

\* largest lattice resolution mesh_gen is applied to on its own
MaxGrid == 40
\* largest number of records of an input table
MaxRows == 200

(* ------------------------------------------------------------------ *)
(* mesh_gen: lattice and geometry conditions                          *)
(* ------------------------------------------------------------------ *)

Abs(a) == IF a < 0 THEN -a ELSE a

\* dx^2 + dy^2 <= r^2, all three in the same unit.  The comparison is the
\* exact one; the two box tests only keep the squares inside 32-bit
\* integers (a point outside the bounding box of the disk is outside it).
sq_dist_le(dx, dy, r) ==
    /\ Abs(dx) <= r
    /\ Abs(dy) <= r
    /\ dx * dx + dy * dy <= r * r

\* np.linspace(0, 30, n): numerators over the denominator linspace_den(n)
linspace_den(n) == IF n = 1 THEN 1 ELSE n - 1
linspace(n) == [i \in 1..n |-> IF n = 1 THEN 0 ELSE 30 * (i - 1)]

\* np.meshgrid(x, y) flattened row-major and column-stacked: x runs fastest
meshgrid_points(n) ==
    [q \in 1..(n * n) |->
        [x |-> linspace(n)[((q - 1) % n) + 1],
         y |-> linspace(n)[((q - 1) \div n) + 1],
         d |-> linspace_den(n)]]

\* 30/(n-1) is a binary fraction: every product i*step of linspace is exact
dyadic_step(n) ==
    \/ n = 1
    \/ \E a \in 0..6, m \in {1, 3, 5, 15} : n - 1 = (2 ^ a) * m

\* some comparison of the conditions is met with equality on the lattice
lattice_tie(n, consts, with_disk) ==
    LET d == linspace_den(n)
        xs == {linspace(n)[i] : i \in 1..n}
    IN  \/ \E x \in xs : 100 * x \in {cst * d : cst \in consts}
        \/ /\ with_disk
           /\ \E x \in xs, y \in xs :
                 (x - 15 * d) * (x - 15 * d) + (y - 15 * d) * (y - 15 * d) = 49 * d * d
        \/ \E x \in xs, y \in xs :
              \/ /\ Abs(100 * x - 1250 * d) <= 250 * d
                 /\ Abs(100 * y - 2417 * d) <= 250 * d
                 /\ (100 * x - 1250 * d) * (100 * x - 1250 * d)
                      + (100 * y - 2417 * d) * (100 * y - 2417 * d)
                      = (250 * d) * (250 * d)
              \/ /\ Abs(100 * x - 2417 * d) <= 250 * d
                 /\ Abs(100 * y - 1250 * d) <= 250 * d
                 /\ (100 * x - 2417 * d) * (100 * x - 2417 * d)
                      + (100 * y - 1250 * d) * (100 * y - 1250 * d)
                      = (250 * d) * (250 * d)

\* The code computes in float64.  Rounding of the size of an ulp changes a
\* comparison only where it is met with equality, so the exact lattice is
\* the computed one when no comparison ties, or when the step is a binary
\* fraction and the only ties are against 15, 21.75 and the radius-7 circle
\* (all exact in float64; 13.16, 24.17 and the fillet circles are not).
float_exact(n) ==
    IF dyadic_step(n) THEN ~lattice_tie(n, {1316, 2417}, FALSE)
    ELSE ~lattice_tie(n, {1500, 1316, 2175, 2417}, TRUE)

in_main_square(x, y, d) ==
    x >= 0 /\ x <= 30 * d /\ y >= 0 /\ y <= 30 * d

out_excluded_square(x, y, d) ==
    ~(x > 15 * d /\ x <= 30 * d /\ y > 15 * d /\ y <= 30 * d)

out_excluded_circle(x, y, d) ==
    (x - 15 * d) * (x - 15 * d) + (y - 15 * d) * (y - 15 * d) >= 49 * d * d

\* centre (12.5, 24.17), radius 2.5, in units of 1/(100 d)
in_fillet_circ_1(x, y, d) ==
    sq_dist_le(100 * x - 1250 * d, 100 * y - 2417 * d, 250 * d)

\* centre (24.17, 12.5), radius 2.5
in_fillet_circ_2(x, y, d) ==
    sq_dist_le(100 * x - 2417 * d, 100 * y - 1250 * d, 250 * d)

out_square_1(x, y, d) ==
    /\ 100 * x > 1316 * d
    /\ x < 15 * d
    /\ 100 * y > 2175 * d
    /\ 100 * y < 2417 * d

out_square_2(x, y, d) ==
    /\ 100 * x > 2175 * d
    /\ 100 * x < 2417 * d
    /\ 100 * y > 1316 * d
    /\ y < 15 * d

square_1_cond(x, y, d) == out_square_1(x, y, d) /\ in_fillet_circ_1(x, y, d)
square_2_cond(x, y, d) == out_square_2(x, y, d) /\ in_fillet_circ_2(x, y, d)

\* a plausible slip: the "final_region |= ..." line left out
region_without_fillets(x, y, d) ==
    /\ in_main_square(x, y, d)
    /\ out_excluded_square(x, y, d)
    /\ out_excluded_circle(x, y, d)
    /\ ~out_square_1(x, y, d)
    /\ ~out_square_2(x, y, d)

\* a plausible slip: the excluded corner square left out of the conjunction
region_without_corner(x, y, d) ==
    \/ /\ in_main_square(x, y, d)
       /\ out_excluded_circle(x, y, d)
       /\ ~out_square_1(x, y, d)
       /\ ~out_square_2(x, y, d)
    \/ square_1_cond(x, y, d)
    \/ square_2_cond(x, y, d)

\* final_region of one point: the conjunction, then "|=" with the fillets
region(x, y, d) ==
    \/ /\ in_main_square(x, y, d)
       /\ out_excluded_square(x, y, d)
       /\ out_excluded_circle(x, y, d)
       /\ ~out_square_1(x, y, d)
       /\ ~out_square_2(x, y, d)
    \/ square_1_cond(x, y, d)
    \/ square_2_cond(x, y, d)

\* the boolean mask over an array of points
region_mask(pts) == [q \in DOMAIN pts |-> region(pts[q].x, pts[q].y, pts[q].d)]

\* points[final_region]: boolean indexing keeps the order of the array
bool_index(pts, mask) ==
    LET kept(q) == mask[q]
        idx == SelectSeq([q \in 1..Len(pts) |-> q], kept)
    IN  [q \in 1..Len(idx) |-> pts[idx[q]]]

\* the whole function: the filtered points, in lattice order
mesh_gen(n) == bool_index(meshgrid_points(n), region_mask(meshgrid_points(n)))

\* len(grid_x) for the resolutions GRIDS[1], GRIDS[2], GRIDS[3] of the sweep
grid_sizes == <<Len(mesh_gen(GRIDS[1])), Len(mesh_gen(GRIDS[2])), Len(mesh_gen(GRIDS[3]))>>

(* ------------------------------------------------------------------ *)
(* State                                                              *)
(* ------------------------------------------------------------------ *)

VARIABLES
    mesh_pc,        \* position inside mesh_gen: "call", "grid", "region", "return"
    n_points,       \* mesh_gen's argument (0: the points were given directly)
    points,         \* the candidate points
    final_region,   \* the boolean mask over points
    valid_points,   \* the points returned
    prog,           \* "idle", or the main() that runs: "fwd", "inv"
    pc,             \* "start", "loop", "rows", "ret", "done", "exit"
    gi, mi, fi,     \* positions of the three for loops of main()
    fs,             \* the files: path -> [exists, lines]
    in_tables,      \* input table of each stem: [rows, n_el]
    n_cent,         \* number of rows of the centroid file
    k,              \* records the reader has handed out in this job
    bg_bf,          \* the batch of completed output records
    result,         \* what the job returned to main()
    log,            \* jobs started so far: [grid, method, file, outcome]
    err,            \* how the process died: "", "exit(1)", "ValueError", ...
    row_len,        \* len(row) of the record being transformed
    fault,          \* what the Rbf calls of this record do: [kind, step, comp, at]
    n_el,           \* points per block as inv_interpolator derives it
    j,              \* the timestep
    c,              \* offset of block j in row
    x_force, y_force,                       \* the force pair of block j
    def_x, def_y, def_xy,                   \* the three sliced arrays
    grid_def_x, grid_def_y, grid_def_xy,    \* the three interpolated arrays
    bf              \* the output record under construction

mesh_vars == <<mesh_pc, n_points, points, final_region, valid_points>>

job_vars == <<prog, pc, gi, mi, fi, fs, in_tables, n_cent, k, bg_bf, result, log, err>>

row_vars == <<row_len, fault, n_el, j, c, x_force, y_force, def_x, def_y, def_xy,
              grid_def_x, grid_def_y, grid_def_xy, bf>>

vars == <<mesh_pc, n_points, points, final_region, valid_points,
          prog, pc, gi, mi, fi, fs, in_tables, n_cent, k, bg_bf, result, log, err,
          row_len, fault, n_el, j, c, x_force, y_force, def_x, def_y, def_xy,
          grid_def_x, grid_def_y, grid_def_xy, bf>>

\* the sweep does not run while mesh_gen is studied on its own
JobsIdle ==
    /\ prog = "idle"
    /\ pc = "start"
    /\ gi = 1 /\ mi = 1 /\ fi = 1
    /\ fs = <<>>
    /\ in_tables = <<>>
    /\ n_cent = 0
    /\ k = 0
    /\ bg_bf = <<>>
    /\ result = [none |-> TRUE]
    /\ log = <<>>
    /\ err = ""

\* no record is being transformed value by value
RowIdle ==
    /\ row_len = 0
    /\ fault = <<>>
    /\ n_el = 0
    /\ j = 0
    /\ c = 0
    /\ x_force = <<>> /\ y_force = <<>>
    /\ def_x = <<>> /\ def_y = <<>> /\ def_xy = <<>>
    /\ grid_def_x = <<>> /\ grid_def_y = <<>> /\ grid_def_xy = <<>>
    /\ bf = <<>>

(* ------------------------------------------------------------------ *)
(* mesh_gen step by step                                              *)
(* ------------------------------------------------------------------ *)

\* lines 38-42: define the grid
MeshGrid ==
    /\ mesh_pc = "call"
    /\ points' = meshgrid_points(n_points)
    /\ mesh_pc' = "grid"
    /\ UNCHANGED <<n_points, final_region, valid_points>>
    /\ UNCHANGED job_vars
    /\ UNCHANGED row_vars

\* lines 47-66: the conditions and their combination
MeshRegion ==
    /\ mesh_pc = "grid"
    /\ final_region' = region_mask(points)
    /\ mesh_pc' = "region"
    /\ UNCHANGED <<n_points, points, valid_points>>
    /\ UNCHANGED job_vars
    /\ UNCHANGED row_vars

\* lines 68-73: extract the valid points
MeshReturn ==
    /\ mesh_pc = "region"
    /\ valid_points' = bool_index(points, final_region)
    /\ mesh_pc' = "return"
    /\ UNCHANGED <<n_points, points, final_region>>
    /\ UNCHANGED job_vars
    /\ UNCHANGED row_vars

MeshInit ==
    /\ mesh_pc = "call"
    /\ n_points \in {n \in 1..MaxGrid : float_exact(n)}
    /\ points = <<>>
    /\ final_region = <<>>
    /\ valid_points = <<>>
    /\ JobsIdle
    /\ RowIdle

MeshNext == MeshGrid \/ MeshRegion \/ MeshReturn

SpecMesh == MeshInit /\ [][MeshNext]_vars

\* hundredths used for hand-picked points: the constants of the conditions,
\* and values on either side of them
ProbeCoords == {0, 500, 1250, 1316, 1400, 1499, 1500, 2000, 2175, 2300, 2417, 3000}

\* the conditions applied to one given point
RegionInit ==
    /\ mesh_pc = "grid"
    /\ n_points = 0
    /\ \E px \in ProbeCoords, py \in ProbeCoords :
          points = <<[x |-> px, y |-> py, d |-> 100]>>
    /\ final_region = <<>>
    /\ valid_points = <<>>
    /\ JobsIdle
    /\ RowIdle

RegionNext == MeshRegion \/ MeshReturn

SpecRegion == RegionInit /\ [][RegionNext]_vars

(* ------------------------------------------------------------------ *)
(* Files                                                              *)
(* ------------------------------------------------------------------ *)

GridSet == {GRIDS[i] : i \in DOMAIN GRIDS}
MethodSet == {METHODS[i] : i \in DOMAIN METHODS}
Stems == {IN_FILES[i] : i \in DOMAIN IN_FILES}

\* os.path.join(DATA, f"{bname}_{grid}_{method}.csv") and its "_inv" twin
fname(file, grid, method) == <<file, grid, method, "">>
fname_inv(file, grid, method) == <<file, grid, method, "_inv">>
\* the configured metrics tables
METRICS == <<"interp_metrics", 0, "", "">>
REV_METRICS == <<"rev_interp_metrics", 0, "", "">>

FwdPaths == {fname(f, g, m) : f \in Stems, g \in GridSet, m \in MethodSet}
InvPaths == {fname_inv(INV_IN_FILES[i], g, m) :
                i \in DOMAIN INV_IN_FILES, g \in GridSet, m \in MethodSet}
Paths == FwdPaths \cup InvPaths \cup {METRICS, REV_METRICS}

NoFile == [exists |-> FALSE, lines |-> <<>>]
\* what an earlier run left behind: a well-formed table, header line and
\* one record
OldFile == [exists |-> TRUE,
            lines |-> <<[t |-> "oh", id |-> 0, w |-> 0],
                        [t |-> "od", id |-> 1, w |-> 0]>>]

\* a slip: the previous file left in place
os_remove_nothing(f, p) == f

isfile(f, p) == f[p].exists

\* os.remove(p)
os_remove(f, p) == [f EXCEPT ![p] = NoFile]

\* widest row of a frame: the number of columns pandas gives it
frame_width(rows) ==
    IF rows = <<>> THEN 0
    ELSE CHOOSE w \in {rows[i].w : i \in DOMAIN rows} :
            \A i \in DOMAIN rows : rows[i].w <= w

\* a slip: the header written on every flush
to_csv_always_header(f, p, rows, header) ==
    [f EXCEPT ![p] = [exists |-> TRUE,
                      lines |-> @.lines
                                \o <<[t |-> "h", id |-> 0, w |-> frame_width(rows)]>>
                                \o rows]]

\* DataFrame(rows).to_csv(p, mode="a", header=header, index=False): the
\* file is created when missing; the header line names the columns; an
\* empty frame without header writes nothing
to_csv(f, p, rows, header) ==
    [f EXCEPT ![p] = [exists |-> TRUE,
                      lines |-> @.lines
                                \o (IF header
                                    THEN <<[t |-> "h", id |-> 0, w |-> frame_width(rows)]>>
                                    ELSE <<>>)
                                \o rows]]

(* ------------------------------------------------------------------ *)
(* Records                                                            *)
(* ------------------------------------------------------------------ *)

\* width of a table row that encodes n points: 20 blocks of 2 + 3n fields
row_width(n) == NSTEPS * (2 + 3 * n)

\* line k of an input table (the well-formed table has a header line and
\* in_tables[file].rows records, each encoding in_tables[file].n_el points)
in_row(file, i) == [t |-> "d", id |-> i, w |-> row_width(in_tables[file].n_el)]

\* the forward transform reads row[c], row[c+1] and row[c+2 .. c+2+564*3-1]
\* for c = j*564*3 + j*2, j < 20: the last index must exist (IndexError),
\* and Rbf(x, y, def_x) wants the 564 values to match the centroid arrays
\* (ValueError: "All arrays must be equal length")
fwd_row_fails(row, ncent) ==
    LET c_last == (NSTEPS - 1) * N_EL * 3 + (NSTEPS - 1) * 2
    IN  \/ c_last + 2 + N_EL * 3 - 1 >= row.w
        \/ ncent # N_EL

\* a slip: the force pair forgotten in every block
RECURSIVE bf_len_no_forces(_, _)
bf_len_no_forces(n_dst, step) ==
    IF step = NSTEPS THEN 0 ELSE 3 * n_dst + bf_len_no_forces(n_dst, step + 1)

\* length of bf after timesteps step .. 19: each appends the force pair and a
\* triple per destination point
RECURSIVE bf_len(_, _)
bf_len(n_dst, step) ==
    IF step = NSTEPS THEN 0 ELSE 2 + 3 * n_dst + bf_len(n_dst, step + 1)

\* the output record of input record i over n_dst destination points
out_row(i, n_dst) == [t |-> "d", id |-> i, w |-> bf_len(n_dst, 0)]

(* ------------------------------------------------------------------ *)
(* The sweep                                                          *)
(* ------------------------------------------------------------------ *)

\* Python's None, as main() tests it
None == [none |-> TRUE]

files_of(p) == IF p = "fwd" THEN IN_FILES ELSE INV_IN_FILES
metrics_of(p) == IF p = "fwd" THEN METRICS ELSE REV_METRICS

grid == GRIDS[gi]
method == METHODS[mi]
file == files_of(prog)[fi]

\* the job main() is calling; had_input: the table it reads exists
job_entry(had_input, outcome) ==
    [grid |-> grid, method |-> method, file |-> file,
     had_input |-> had_input, outcome |-> outcome]

set_outcome(l, o) == [l EXCEPT ![Len(l)].outcome = o]

\* main(), lines 197-218 / 172-193: delete the metrics table, read the
\* centroid file.  Either module is run on its own, or src/main.py runs
\* reverse_interp.main() once mesh_interp.main() has returned.
Main(p) ==
    /\ \/ prog = "idle" /\ pc = "start"
       \/ p = "inv" /\ prog = "fwd" /\ pc = "done"
    /\ prog' = p
    /\ fs' = IF isfile(fs, metrics_of(p)) THEN os_remove(fs, metrics_of(p)) ELSE fs
    /\ gi' = 1 /\ mi' = 1 /\ fi' = 1
    /\ pc' = "loop"
    /\ log' = <<>>
    /\ result' = None
    /\ UNCHANGED <<in_tables, n_cent, k, bg_bf, err>>
    /\ UNCHANGED mesh_vars
    /\ UNCHANGED row_vars

FwdMain == Main("fwd")
InvMain == Main("inv")

\* interpolator, lines 82-102: delete a previous output, generate the
\* mesh, open the input and skip its header
FwdBegin ==
    /\ prog = "fwd" /\ pc = "loop"
    /\ fs' = IF isfile(fs, fname(file, grid, method))
             THEN os_remove(fs, fname(file, grid, method)) ELSE fs
    /\ k' = 0
    /\ bg_bf' = <<>>
    /\ log' = Append(log, job_entry(TRUE, "running"))
    /\ pc' = "rows"
    /\ UNCHANGED <<prog, gi, mi, fi, in_tables, n_cent, result, err>>
    /\ UNCHANGED mesh_vars
    /\ UNCHANGED row_vars

\* a slip: the batch is not emptied after a flush
after_flush_keep(batch) == batch

\* bg_bf = [] after a flush
after_flush(batch) == <<>>

\* a slip: the handler returns to main() instead of ending the process
exit_returns(status) == "ret"

\* exit(1) in the exception handler: the process ends there
exit(status) == "exit"

\* lines 104-167: one record: transform it, add it to the batch, flush the
\* batch at the threshold; any exception prints and exits
FwdRow ==
    /\ prog = "fwd" /\ pc = "rows"
    /\ k < in_tables[file].rows
    /\ k' = k + 1
    /\ IF fwd_row_fails(in_row(file, k + 1), n_cent)
       THEN /\ pc' = exit(1)
            /\ err' = "exit(1)"
            /\ log' = set_outcome(log, "failed")
            /\ UNCHANGED <<fs, bg_bf>>
       ELSE LET new_fname == fname(file, grid, method)
                batch == Append(bg_bf, out_row(k + 1, grid_sizes[gi]))
            IN  /\ IF Len(batch) = BUFF_TSHOLD /\ ~isfile(fs, new_fname)
                   THEN /\ fs' = to_csv(fs, new_fname, batch, TRUE)
                        /\ bg_bf' = after_flush(batch)
                   ELSE IF Len(batch) = BUFF_TSHOLD /\ isfile(fs, new_fname)
                   THEN /\ fs' = to_csv(fs, new_fname, batch, FALSE)
                        /\ bg_bf' = after_flush(batch)
                   ELSE /\ fs' = fs
                        /\ bg_bf' = batch
                /\ UNCHANGED <<pc, err, log>>
    /\ UNCHANGED <<prog, gi, mi, fi, in_tables, n_cent, result>>
    /\ UNCHANGED mesh_vars
    /\ UNCHANGED row_vars

\* lines 169-190: the last flush, always without header, and the result
\* (its interpolation_duration, a wall-clock time, is left out)
FwdEnd ==
    /\ prog = "fwd" /\ pc = "rows"
    /\ k = in_tables[file].rows
    /\ fs' = to_csv(fs, fname(file, grid, method), bg_bf, FALSE)
    /\ result' = [grid |-> grid, method |-> method, file |-> file]
    /\ log' = set_outcome(log, "ok")
    /\ pc' = "ret"
    /\ UNCHANGED <<prog, gi, mi, fi, in_tables, n_cent, k, bg_bf, err>>
    /\ UNCHANGED mesh_vars
    /\ UNCHANGED row_vars

\* "grid_x == None" compares element by element, and "if" on the array it
\* gives raises ValueError when the array has more than one element (a
\* one-element array is tested as its element, False; mesh_gen returns no
\* empty array).  The grids of the sweep have 253, 564 and 1006 points, so
\* lines 60-165 of inv_interpolator are not reached from main().
mesh_check_raises(size) == size > 1

\* inv_interpolator, lines 35-58: delete a previous output, return when
\* the forward table is missing, generate the mesh and check it
InvBegin ==
    /\ prog = "inv" /\ pc = "loop"
    /\ fs' = IF isfile(fs, fname_inv(file, grid, method))
             THEN os_remove(fs, fname_inv(file, grid, method)) ELSE fs
    /\ k' = 0
    /\ bg_bf' = <<>>
    /\ IF ~isfile(fs, fname(file, grid, method))
       THEN /\ result' = None
            /\ pc' = "ret"
            /\ err' = err
            /\ log' = Append(log, job_entry(FALSE, "skipped"))
       ELSE IF mesh_check_raises(grid_sizes[gi])
       THEN /\ result' = None
            /\ pc' = "exit"
            /\ err' = "ValueError"
            /\ log' = Append(log, job_entry(TRUE, "failed"))
       ELSE /\ result' = None
            /\ pc' = "rows"
            /\ err' = err
            /\ log' = Append(log, job_entry(TRUE, "running"))
    /\ UNCHANGED <<prog, gi, mi, fi, in_tables, n_cent>>
    /\ UNCHANGED mesh_vars
    /\ UNCHANGED row_vars

\* a slip: the header decided by something else than the file's existence
write_header_always(f, p) == TRUE

\* write_header = not os.path.exists(METRICS)
write_header(f, p) == ~isfile(f, p)

\* a slip: the record appended whatever the job returned
truthy_always(r) == TRUE

\* "if result:": None is falsy, a non-empty dict is truthy
truthy(r) == r # None

\* main(), lines 223-229 / 198-204 and the three for loops: append the
\* result, if any, to the metrics table and move to the next combination
Result ==
    /\ prog \in {"fwd", "inv"} /\ pc = "ret"
    /\ fs' = IF truthy(result)
             THEN to_csv(fs, metrics_of(prog),
                         <<[t |-> "d", id |-> result, w |-> 0]>>,
                         write_header(fs, metrics_of(prog)))
             ELSE fs
    /\ result' = None
    /\ IF fi < Len(files_of(prog))
       THEN /\ fi' = fi + 1 /\ UNCHANGED <<mi, gi>> /\ pc' = "loop"
       ELSE IF mi < Len(METHODS)
       THEN /\ fi' = 1 /\ mi' = mi + 1 /\ UNCHANGED gi /\ pc' = "loop"
       ELSE IF gi < Len(GRIDS)
       THEN /\ fi' = 1 /\ mi' = 1 /\ gi' = gi + 1 /\ pc' = "loop"
       ELSE /\ UNCHANGED <<fi, mi, gi>> /\ pc' = "done"
    /\ UNCHANGED <<prog, in_tables, n_cent, k, bg_bf, log, err>>
    /\ UNCHANGED mesh_vars
    /\ UNCHANGED row_vars

(* ------------------------------------------------------------------ *)
(* Inputs                                                             *)
(* ------------------------------------------------------------------ *)

\* table sizes: below, at and just above the threshold, and the largest
Sizes == {n \in 1..MaxRows : n \in {1, BUFF_TSHOLD, BUFF_TSHOLD + 1, MaxRows}}

\* points encoded per record of an input table: the expected layout and
\* one point short
Layouts == {N_EL - 1, N_EL}

\* rows of the centroid file
CentroidCounts == {N_EL, N_EL + 1}

\* files found at start: none, every output and metrics table, only the
\* inverse side, only the forward tables of the last grid
StaleSets ==
    { {},
      Paths,
      InvPaths \cup {REV_METRICS},
      {fname(f, GRIDS[Len(GRIDS)], m) : f \in Stems, m \in MethodSet} }

Init ==
    /\ mesh_pc = "off"
    /\ n_points = 0
    /\ points = <<>>
    /\ final_region = <<>>
    /\ valid_points = <<>>
    /\ prog = "idle"
    /\ pc = "start"
    /\ gi = 1 /\ mi = 1 /\ fi = 1
    /\ \E S \in StaleSets : fs = [p \in Paths |-> IF p \in S THEN OldFile ELSE NoFile]
    /\ in_tables \in [Stems -> [rows : Sizes, n_el : Layouts]]
    /\ n_cent \in CentroidCounts
    /\ k = 0
    /\ bg_bf = <<>>
    /\ result = None
    /\ log = <<>>
    /\ err = ""
    /\ RowIdle

Next ==
    \/ FwdMain
    \/ InvMain
    \/ FwdBegin
    \/ FwdRow
    \/ FwdEnd
    \/ InvBegin
    \/ Result

Spec == Init /\ [][Next]_vars

(* ------------------------------------------------------------------ *)
(* One record, value by value                                         *)
(* ------------------------------------------------------------------ *)

\* the values a record is made of: the text of a CSV field, the float
\* parsed from it, a result of an interpolant, and the floats nan_to_num
\* puts in place of others
Value(kind, of, n, at) == [kind |-> kind, of |-> of, n |-> n, at |-> at]

NAN == Value("nan", 0, 0, 0)
POS_INF == Value("+inf", 0, 0, 0)
NEG_INF == Value("-inf", 0, 0, 0)
ZERO == Value("0.0", 0, 0, 0)
\* np.finfo(float).max and np.finfo(float).min
FLOAT_MAX == Value("1.7976931348623157e+308", 0, 0, 0)
FLOAT_MIN == Value("-1.7976931348623157e+308", 0, 0, 0)

\* row[p]: the text of column p (counted from 0) of the record
row(p) == Value("str", p, 0, 0)

\* np.array(values, dtype=float): every text parsed to a float
np_array_float(values) == [q \in DOMAIN values |-> Value("float", values[q].of, 0, 0)]

\* the source and the destination point sets of a transform: the forward
\* one goes from the centroids (x, y) to the mesh (grid_x, grid_y), the
\* inverse one the other way
n_src(p) == IF p = "fwd" THEN n_cent ELSE Len(valid_points)
n_dst(p) == IF p = "fwd" THEN Len(valid_points) ELSE n_cent

\* the point count the slicing works with: 564 in interpolator, n_el in
\* inv_interpolator
block_points(p) == IF p = "fwd" THEN N_EL ELSE n_el

\* int((len(row)/20-2)/3): int() truncates towards zero
int_n_el(len) == IF len < 2 * NSTEPS THEN 0 ELSE (len - 2 * NSTEPS) \div (3 * NSTEPS)

\* [row[i] for i in range(start, start + 3*n, 3)]
every_third(start, n) == [q \in 1..n |-> row(start + 3 * (q - 1))]

\* the highest index of row the slicing of a block reads
last_read(off, n) == off + 1 + 3 * n

Comps == {"def_x", "def_y", "def_xy"}

\* Rbf(xs, ys, values, function=method)(xd, yd): one value per destination
\* point.  The value interpolates the given array (named here by its first
\* element and its length) at destination point q, unless the arithmetic
\* of this call overflows or cancels there: then it is NaN, +Inf or -Inf.
Rbf(values, comp, step, nd) ==
    [q \in 1..nd |->
        IF fault.kind \in {"nan", "+inf", "-inf"} /\ fault.step = step
           /\ fault.comp = comp /\ fault.at = q
        THEN Value(fault.kind, 0, 0, 0)
        ELSE Value("interp", values[1].of, Len(values), q)]

\* Rbf(...) raises: ValueError when the value array and the source points
\* differ in length, LinAlgError when the system it solves is singular
Rbf_raises(values, comp, step, ns) ==
    \/ Len(values) # ns
    \/ fault.kind = "singular" /\ fault.step = step /\ fault.comp = comp

\* np.nan_to_num(a): NaN becomes 0.0, +Inf the largest finite float, -Inf
\* the most negative one
nan_to_num(a) ==
    [q \in DOMAIN a |->
        CASE a[q].kind = "nan" -> ZERO
          [] a[q].kind = "+inf" -> FLOAT_MAX
          [] a[q].kind = "-inf" -> FLOAT_MIN
          [] OTHER -> a[q]]

\* bf after the appends of one timestep: the force pair, then the three
\* values of each destination point
append_block(buf, xf, yf, gx, gy, gxy) ==
    buf \o <<xf, yf>>
        \o [q \in 1..(3 * Len(gx)) |->
               CASE q % 3 = 1 -> gx[(q + 2) \div 3]
                 [] q % 3 = 2 -> gy[(q + 1) \div 3]
                 [] OTHER -> gxy[q \div 3]]

\* how an exception ends the process: interpolator catches it, prints and
\* calls exit(1); inv_interpolator lets it through
raised(p, exception) == IF p = "fwd" THEN "exit(1)" ELSE exception

\* lines 104-105 / 66-68: the reader hands out a record
RowBegin(p) ==
    /\ prog = p /\ pc = "row"
    /\ bf' = <<>>
    /\ n_el' = IF p = "inv" THEN int_n_el(row_len) ELSE n_el
    /\ j' = 0
    /\ pc' = "slice"
    /\ UNCHANGED <<prog, gi, mi, fi, fs, in_tables, n_cent, k, bg_bf, result, log, err>>
    /\ UNCHANGED <<row_len, fault, c, x_force, y_force, def_x, def_y, def_xy,
                   grid_def_x, grid_def_y, grid_def_xy>>
    /\ UNCHANGED mesh_vars

FwdRowBegin == RowBegin("fwd")
InvRowBegin == RowBegin("inv")

\* lines 115-127 / 78-89: the offset of block j, its force pair and its
\* three arrays
Slice(p) ==
    /\ prog = p /\ pc = "slice"
    /\ j < NSTEPS
    /\ LET off == j * block_points(p) * 3 + j * 2
       IN  /\ c' = off
           /\ IF last_read(off, block_points(p)) >= row_len
              THEN /\ pc' = "exit"
                   /\ err' = raised(p, "IndexError")
                   /\ UNCHANGED <<x_force, y_force, def_x, def_y, def_xy>>
              ELSE /\ x_force' = row(off)
                   /\ y_force' = row(off + 1)
                   /\ def_x' = np_array_float(every_third(off + 2, block_points(p)))
                   /\ def_y' = np_array_float(every_third(off + 3, block_points(p)))
                   /\ def_xy' = np_array_float(every_third(off + 4, block_points(p)))
                   /\ pc' = "interp"
                   /\ err' = err
    /\ UNCHANGED <<prog, gi, mi, fi, fs, in_tables, n_cent, k, bg_bf, result, log>>
    /\ UNCHANGED <<row_len, fault, n_el, j, grid_def_x, grid_def_y, grid_def_xy, bf>>
    /\ UNCHANGED mesh_vars

FwdSlice == Slice("fwd")
InvSlice == Slice("inv")

\* lines 129-142 / 91-104: the three interpolants, their values at the
\* destination points, and nan_to_num
Interp(p) ==
    /\ prog = p /\ pc = "interp"
    /\ IF \/ Rbf_raises(def_x, "def_x", j, n_src(p))
          \/ Rbf_raises(def_y, "def_y", j, n_src(p))
          \/ Rbf_raises(def_xy, "def_xy", j, n_src(p))
       THEN /\ pc' = "exit"
            /\ err' = raised(p, IF Len(def_x) # n_src(p) THEN "ValueError"
                                ELSE "LinAlgError")
            /\ UNCHANGED <<grid_def_x, grid_def_y, grid_def_xy>>
       ELSE /\ grid_def_x' = nan_to_num(Rbf(def_x, "def_x", j, n_dst(p)))
            /\ grid_def_y' = nan_to_num(Rbf(def_y, "def_y", j, n_dst(p)))
            /\ grid_def_xy' = nan_to_num(Rbf(def_xy, "def_xy", j, n_dst(p)))
            /\ pc' = "append"
            /\ err' = err
    /\ UNCHANGED <<prog, gi, mi, fi, fs, in_tables, n_cent, k, bg_bf, result, log>>
    /\ UNCHANGED <<row_len, fault, n_el, j, c, x_force, y_force, def_x, def_y, def_xy, bf>>
    /\ UNCHANGED mesh_vars

FwdInterp == Interp("fwd")
InvInterp == Interp("inv")

\* lines 144-150 / 106-112: the block of timestep j goes to bf
AppendBlock(p) ==
    /\ prog = p /\ pc = "append"
    /\ bf' = append_block(bf, x_force, y_force, grid_def_x, grid_def_y, grid_def_xy)
    /\ j' = j + 1
    /\ pc' = "slice"
    /\ UNCHANGED <<prog, gi, mi, fi, fs, in_tables, n_cent, k, bg_bf, result, log, err>>
    /\ UNCHANGED <<row_len, fault, n_el, c, x_force, y_force, def_x, def_y, def_xy,
                   grid_def_x, grid_def_y, grid_def_xy>>
    /\ UNCHANGED mesh_vars

FwdAppendBlock == AppendBlock("fwd")
InvAppendBlock == AppendBlock("inv")

\* lines 152-153 / 114-115: the record is complete and joins the batch
RowEnd(p) ==
    /\ prog = p /\ pc = "slice"
    /\ j = NSTEPS
    /\ k' = k + 1
    /\ bg_bf' = Append(bg_bf, [t |-> "d", id |-> k + 1, w |-> Len(bf)])
    /\ pc' = "row_done"
    /\ UNCHANGED <<prog, gi, mi, fi, fs, in_tables, n_cent, result, log, err>>
    /\ UNCHANGED row_vars
    /\ UNCHANGED mesh_vars

FwdRowEnd == RowEnd("fwd")
InvRowEnd == RowEnd("inv")

\* resolutions given to mesh_gen: the smallest ones and the first of the sweep
RowGrids == {1, 2, GRIDS[1]}

\* points encoded per block of the record
RowLayouts(p) == IF p = "fwd" THEN {N_EL - 1, N_EL, N_EL + 1} ELSE {0, 1, 2}

\* rows of the centroid file
RowCentroidCounts(p) == IF p = "fwd" THEN CentroidCounts ELSE {1, 3}

NoFault == [kind |-> "none", step |-> 0, comp |-> "", at |-> 0]

\* what the interpolants of the record do: nothing special, or one non-finite
\* value at the last destination point, or one singular system
Faults(nd) ==
    {NoFault}
    \cup [kind : {"nan", "+inf", "-inf"}, step : {0, NSTEPS - 1}, comp : Comps, at : {nd}]
    \cup [kind : {"singular"}, step : {0, NSTEPS - 1}, comp : Comps, at : {0}]

\* a transform has generated its mesh, opened its table and is about to
\* read one record; inv_interpolator gets there only past its test of grid_x
RowInit ==
    /\ mesh_pc = "return"
    /\ n_points \in RowGrids
    /\ points = meshgrid_points(n_points)
    /\ final_region = region_mask(points)
    /\ valid_points = mesh_gen(n_points)
    /\ prog \in {"fwd", "inv"}
    /\ prog = "inv" => ~mesh_check_raises(Len(valid_points))
    /\ pc = "row"
    /\ gi = 1 /\ mi = 1 /\ fi = 1
    /\ fs = <<>>
    /\ in_tables = <<>>
    /\ n_cent \in RowCentroidCounts(prog)
    /\ k = 0
    /\ bg_bf = <<>>
    /\ result = None
    /\ log = <<>>
    /\ err = ""
    /\ row_len \in {row_width(n) : n \in RowLayouts(prog)}
    /\ fault \in Faults(n_dst(prog))
    /\ n_el = 0
    /\ j = 0
    /\ c = 0
    /\ x_force = <<>> /\ y_force = <<>>
    /\ def_x = <<>> /\ def_y = <<>> /\ def_xy = <<>>
    /\ grid_def_x = <<>> /\ grid_def_y = <<>> /\ grid_def_xy = <<>>
    /\ bf = <<>>

RowNext ==
    \/ FwdRowBegin
    \/ InvRowBegin
    \/ FwdSlice
    \/ InvSlice
    \/ FwdInterp
    \/ InvInterp
    \/ FwdAppendBlock
    \/ InvAppendBlock
    \/ FwdRowEnd
    \/ InvRowEnd

SpecRow == RowInit /\ [][RowNext]_vars

(* ------------------------------------------------------------------ *)
(* Properties                                                         *)
(* ------------------------------------------------------------------ *)

IsHeader(l) == l.t = "h"
IsOld(l) == l.t \in {"oh", "od"}

\* the output path of a job of the running sweep
OutPath(e) ==
    IF prog = "fwd" THEN fname(e.file, e.grid, e.method)
    ELSE fname_inv(e.file, e.grid, e.method)

LastJob == log[Len(log)]

\* the job main() called last has returned a result
JobCompleted ==
    /\ prog \in {"fwd", "inv"}
    /\ pc = "ret"
    /\ LastJob.outcome = "ok"

HeaderCount(lines) == Cardinality({i \in DOMAIN lines : IsHeader(lines[i])})

\* records of a table as its readers take it (csv.reader after
\* next(reader), pd.read_csv): every line after the first
TableRecords(lines) == IF lines = <<>> THEN 0 ELSE Len(lines) - 1

\* C1 (as claimed): when a job has completed, whatever the size of its
\* input table, its output file holds exactly one header line and that
\* line is the first of the file.
C1_HeaderOnce ==
    JobCompleted =>
        LET lines == fs[OutPath(LastJob)].lines
        IN  /\ HeaderCount(lines) = 1
            /\ IsHeader(lines[1])

\* C2 (as claimed): when a job has completed, the table it wrote has as
\* many records as the table it read: none lost, duplicated or taken as
\* the header.
C2_RowCountPreserved ==
    JobCompleted =>
        TableRecords(fs[OutPath(LastJob)].lines) = in_tables[LastJob.file].rows

\* C3: every record a completed job wrote has exactly 20 x (2 + 3 x D)
\* fields, D the number of points of the job's destination point set.
C3_OutputWidth ==
    JobCompleted =>
        LET lines == fs[OutPath(LastJob)].lines
            D == grid_sizes[gi]
        IN  \A i \in DOMAIN lines :
                ~IsHeader(lines[i]) => lines[i].w = 20 * (2 + 3 * D)

\* a forward job over a table longer than one batch has completed
C3_Witness ==
    /\ JobCompleted
    /\ prog = "fwd"
    /\ Len(fs[OutPath(LastJob)].lines) > BUFF_TSHOLD + 1
    /\ fs[OutPath(LastJob)].lines[2].w = 20 * (2 + 3 * 253)

\* C4 (as claimed): an inverse job that found its forward table is neither
\* aborted nor skipped.
C4_InverseJobRuns ==
    prog = "inv" =>
        \A i \in DOMAIN log :
            log[i].had_input => log[i].outcome \in {"running", "ok"}

\* a data line of the metrics table that belongs to job e, or to no job
RecordFor(l, e) ==
    /\ l.t = "d"
    /\ \/ l.id = None
       \/ /\ l.id.grid = e.grid
          /\ l.id.method = e.method
          /\ l.id.file = e.file

\* C5: an inverse job whose forward table is missing is skipped: it
\* returns no result, leaves no inverse output table, gets no metrics
\* record, and the process goes on (it does not die in that job).
C5_MissingInputSkipped ==
    prog = "inv" =>
        \A i \in DOMAIN log :
            ~log[i].had_input =>
                /\ log[i].outcome = "skipped"
                /\ ~isfile(fs, OutPath(log[i]))
                /\ \A l \in DOMAIN fs[REV_METRICS].lines :
                       ~RecordFor(fs[REV_METRICS].lines[l], log[i])
                /\ (i = Len(log) /\ pc = "ret") => result = None
                /\ i = Len(log) => pc \in {"ret", "loop", "done"}

\* a job was skipped and the sweep went on to a later combination
C5_Witness ==
    /\ prog = "inv"
    /\ Len(log) >= 2
    /\ log[1].outcome = "skipped"
    /\ ~log[1].had_input

NoOldLine(lines) == \A i \in DOMAIN lines : ~IsOld(lines[i])

\* C6: a file found at a job's output path is deleted before the job
\* writes any record, and no line of it is in the job's output; a skipped
\* inverse job leaves no file at its output path.
C6_CleanSlate ==
    (prog \in {"fwd", "inv"} /\ log # <<>>) =>
        /\ (pc = "rows" /\ k = 0) => ~isfile(fs, OutPath(LastJob))
        /\ pc \in {"ret", "exit", "loop", "done"} => NoOldLine(fs[OutPath(LastJob)].lines)
        /\ LastJob.outcome = "skipped" => ~isfile(fs, OutPath(LastJob))

\* the first forward job has completed in a run that found an old file at
\* every output path (the next job's path still holds its old file)
C6_Witness ==
    /\ JobCompleted
    /\ prog = "fwd"
    /\ Len(log) = 1
    /\ fs[fname(X_TEST, 20, "linear")] = OldFile
    /\ isfile(fs, OutPath(LastJob))

\* jobs whose result main() has already handled
Handled == IF pc = "ret" THEN SubSeq(log, 1, Len(log) - 1) ELSE log

IsOk(e) == e.outcome = "ok"

\* C7: once main() has deleted the old metrics table, the table is absent
\* while no job has succeeded, and otherwise is one header line followed
\* by one data line per successful job.
C7_MetricsHeaderOnce ==
    prog \in {"fwd", "inv"} =>
        LET m == fs[metrics_of(prog)]
            n == Len(SelectSeq(Handled, IsOk))
        IN  IF n = 0 THEN ~m.exists
            ELSE /\ m.exists
                 /\ Len(m.lines) = n + 1
                 /\ IsHeader(m.lines[1])
                 /\ \A i \in 2..Len(m.lines) : m.lines[i].t = "d"

\* three records are in the forward metrics table of a run that found an
\* old metrics table (the last job's path still holds its old file)
C7_Witness ==
    /\ prog = "fwd"
    /\ Len(fs[METRICS].lines) = 4
    /\ fs[fname(X_TEST, 40, "multiquadric")] = OldFile
    /\ fs[REV_METRICS] = OldFile

\* the combinations in the order of the three nested loops
SweepOrder(files) ==
    [i \in 1..(3 * 3 * Len(files)) |->
        [grid |-> <<20, 30, 40>>[((i - 1) \div (3 * Len(files))) + 1],
         method |-> <<"linear", "cubic", "multiquadric">>
                        [(((i - 1) \div Len(files)) % 3) + 1],
         file |-> files[((i - 1) % Len(files)) + 1]]]

JobOf(e) == [grid |-> e.grid, method |-> e.method, file |-> e.file]

\* C8 (as claimed): jobs run one at a time in the order grid, method,
\* file; a sweep runs every combination once (18 forward: training and
\* test; 9 inverse: training) and stops early only on a fatal input error;
\* the metrics records are those of the successful jobs, in sweep order.
C8_SweepCoverage ==
    prog \in {"fwd", "inv"} =>
        LET files == IF prog = "fwd" THEN <<"x_train", "x_test">> ELSE <<"x_train">>
            order == SweepOrder(files)
            ok == SelectSeq(Handled, IsOk)
            m == fs[metrics_of(prog)].lines
        IN  /\ Len(log) <= Len(order)
            /\ \A i \in DOMAIN log : JobOf(log[i]) = order[i]
            /\ pc = "done" => Len(log) = Len(order)
            /\ pc = "exit" => err = "exit(1)"
            /\ ok # <<>> =>
                 /\ Len(m) = Len(ok) + 1
                 /\ \A i \in DOMAIN ok : m[i + 1].id = JobOf(ok[i])

(* ---------------- mesh_gen ---------------- *)

\* the set of points of the n x n lattice over [0,30] x [0,30]
Lattice(n) ==
    LET d == IF n = 1 THEN 1 ELSE n - 1
    IN  {[x |-> IF n = 1 THEN 0 ELSE 30 * i, y |-> IF n = 1 THEN 0 ELSE 30 * l, d |-> d] :
            i \in 0..(n - 1), l \in 0..(n - 1)}

\* the domain predicate, on x = p.x/p.d and y = p.y/p.d
InMainSquare(p) == 0 <= p.x /\ p.x <= 30 * p.d /\ 0 <= p.y /\ p.y <= 30 * p.d
InExcludedSquare(p) == 15 * p.d < p.x /\ p.x <= 30 * p.d /\ 15 * p.d < p.y /\ p.y <= 30 * p.d
OutsideDisk(p) ==
    (p.x - 15 * p.d) * (p.x - 15 * p.d) + (p.y - 15 * p.d) * (p.y - 15 * p.d)
        >= 49 * p.d * p.d
InCutOut1(p) ==
    /\ 1316 * p.d < 100 * p.x /\ 100 * p.x < 1500 * p.d
    /\ 2175 * p.d < 100 * p.y /\ 100 * p.y < 2417 * p.d
InCutOut2(p) ==
    /\ 2175 * p.d < 100 * p.x /\ 100 * p.x < 2417 * p.d
    /\ 1316 * p.d < 100 * p.y /\ 100 * p.y < 1500 * p.d
InFilletDisk1(p) == sq_dist_le(100 * p.x - 1250 * p.d, 100 * p.y - 2417 * p.d, 250 * p.d)
InFilletDisk2(p) == sq_dist_le(100 * p.x - 2417 * p.d, 100 * p.y - 1250 * p.d, 250 * p.d)
MainBranch(p) ==
    /\ InMainSquare(p) /\ ~InExcludedSquare(p) /\ OutsideDisk(p)
    /\ ~InCutOut1(p) /\ ~InCutOut2(p)
DomainPredicate(p) ==
    \/ MainBranch(p)
    \/ InCutOut1(p) /\ InFilletDisk1(p)
    \/ InCutOut2(p) /\ InFilletDisk2(p)

Returned == {valid_points[i] : i \in DOMAIN valid_points}

\* C9: the points mesh_gen(n) returns are exactly the points of the n x n
\* lattice that satisfy the domain predicate, each once.
C9_MeshIsFilteredLattice ==
    (mesh_pc = "return" /\ n_points > 0) =>
        /\ Returned = {p \in Lattice(n_points) : DomainPredicate(p)}
        /\ Cardinality(Returned) = Len(valid_points)

\* mesh_gen(20) has returned: a lattice point of cut-out rectangle 1 is
\* kept through the fillet disk and another one is dropped
C9_Witness ==
    /\ mesh_pc = "return"
    /\ n_points = 20
    /\ \E p \in Returned : InCutOut1(p) /\ InFilletDisk1(p)
    /\ \E p \in Lattice(20) : InCutOut1(p) /\ p \notin Returned

Probe == points[1]
ProbeIs(px, py) == n_points = 0 /\ mesh_pc = "return" /\ Probe.x = px /\ Probe.y = py
Kept == valid_points = points

\* C10 (as claimed): (5,5) is kept by the main conditions; (20,20) is
\* dropped, being in the excluded square and in no fillet disk;
\* (12.5, 24.17) is kept as a point of cut-out rectangle 1 inside fillet
\* disk 1.
C10_Cases ==
    /\ ProbeIs(500, 500) =>
          Kept /\ InMainSquare(Probe) /\ OutsideDisk(Probe)
               /\ ~InCutOut1(Probe) /\ ~InCutOut2(Probe)
    /\ ProbeIs(2000, 2000) =>
          ~Kept /\ InExcludedSquare(Probe)
                /\ ~InFilletDisk1(Probe) /\ ~InFilletDisk2(Probe)
    /\ ProbeIs(1250, 2417) =>
          Kept /\ InCutOut1(Probe) /\ InFilletDisk1(Probe)

\* C10 (amended): as above for (5,5) and (20,20); (12.5, 24.17) is kept
\* by the main conditions: it is the centre of fillet disk 1 but it is
\* not in cut-out rectangle 1 (12.5 < 13.16, and 24.17 is not below 24.17).
C10_CasesAmended ==
    /\ ProbeIs(500, 500) =>
          Kept /\ InMainSquare(Probe) /\ OutsideDisk(Probe)
               /\ ~InCutOut1(Probe) /\ ~InCutOut2(Probe)
    /\ ProbeIs(2000, 2000) =>
          ~Kept /\ InExcludedSquare(Probe)
                /\ ~InFilletDisk1(Probe) /\ ~InFilletDisk2(Probe)
    /\ ProbeIs(1250, 2417) =>
          Kept /\ MainBranch(Probe) /\ ~InCutOut1(Probe) /\ InFilletDisk1(Probe)

\* the conditions have been applied to (12.5, 24.17)
C10_Witness == ProbeIs(1250, 2417) /\ Len(final_region) = 1

\* the array sliced for a component, and the place of the component in a triple
DefOf(comp) == IF comp = "def_x" THEN def_x ELSE IF comp = "def_y" THEN def_y ELSE def_xy
TriplePos(comp) == IF comp = "def_x" THEN 0 ELSE IF comp = "def_y" THEN 1 ELSE 2

IsNonFinite(v) == v.kind \in {"nan", "+inf", "-inf"}

\* the block of timestep j - 1 has just been appended to bf
BlockAppended == prog \in {"fwd", "inv"} /\ pc = "slice" /\ j > 0

\* the value written for a component at destination point q (from 1) in
\* the block appended last
Written(comp, q) == bf[(j - 1) * (2 + 3 * n_dst(prog)) + 2 + 3 * (q - 1) + TriplePos(comp) + 1]

\* what the interpolant of that block gave there, before sanitization
Raw(comp, q) == Rbf(DefOf(comp), comp, j - 1, n_dst(prog))[q]

\* C11 (as claimed): for every interpolated value of a block written to
\* the output record, a raw result that is NaN, +Inf or -Inf is written as
\* exactly 0, a finite raw result is written unchanged, and nothing
\* non-finite is written.
C11_NonFiniteZeroed ==
    BlockAppended =>
        \A comp \in Comps, q \in 1..n_dst(prog) :
            /\ IsNonFinite(Raw(comp, q)) => Written(comp, q) = ZERO
            /\ ~IsNonFinite(Raw(comp, q)) => Written(comp, q) = Raw(comp, q)
            /\ ~IsNonFinite(Written(comp, q))

\* C12: when a record of a job raises an error, the process ends in that
\* job: the failing job is the last one started, the metrics table holds
\* no record for it, and it holds exactly what the earlier jobs of the
\* sweep appended (the header and one record per successful job, in
\* order; no table when there was none).
C12_FatalError ==
    prog \in {"fwd", "inv"} =>
        \A i \in DOMAIN log :
            log[i].outcome = "failed" =>
                LET earlier == SelectSeq(SubSeq(log, 1, i - 1), IsOk)
                    m == fs[metrics_of(prog)]
                IN  /\ i = Len(log)
                    /\ pc = "exit"
                    /\ err # ""
                    /\ \A l \in DOMAIN m.lines :
                           m.lines[l].t = "d" => m.lines[l].id # JobOf(log[i])
                    /\ IF earlier = <<>> THEN ~m.exists
                       ELSE /\ Len(m.lines) = Len(earlier) + 1
                            /\ IsHeader(m.lines[1])
                            /\ \A q \in DOMAIN earlier :
                                   m.lines[q + 1].id = JobOf(earlier[q])

\* the first job of a forward sweep has left its metrics record and the
\* second one has died on a record of its table
C12_Witness ==
    /\ prog = "fwd"
    /\ pc = "exit"
    /\ err = "exit(1)"
    /\ Len(log) = 2
    /\ log[1].outcome = "ok"
    /\ log[2].outcome = "failed"
    /\ Len(fs[METRICS].lines) = 2

\* block j of the record has just been sliced
BlockSliced == prog \in {"fwd", "inv"} /\ pc = "interp"

\* width of a block of the record as its length gives it: L / 20
BlockWidth == row_len \div NSTEPS

\* C13 (as claimed): in the forward and in the inverse transform, block j
\* of a record of length L is read at offset j x (L / 20), whatever the
\* point count the record encodes.
C13_SliceFromLayout ==
    BlockSliced => c = j * BlockWidth

\* data lines of a file
DataLines(lines) == Cardinality({i \in DOMAIN lines : lines[i].t = "d"})

\* C14: the batch always holds fewer than 100 records between two steps of
\* a job; after k records it holds the k mod 100 last ones, all the others
\* being in the output file: each time the batch reached 100 it was
\* written to the file and emptied, on the first flush (no output file
\* yet) and on the later ones (the file exists).
C14_BoundedBatch ==
    /\ Len(bg_bf) < BUFF_TSHOLD
    /\ (prog \in {"fwd", "inv"} /\ pc = "rows") =>
          /\ Len(bg_bf) = k % BUFF_TSHOLD
          /\ DataLines(fs[OutPath(LastJob)].lines) = k - (k % BUFF_TSHOLD)
          /\ \A i \in DOMAIN bg_bf : bg_bf[i].id = k - Len(bg_bf) + i

\* record 200 of a job has filled the batch a second time: the batch is
\* empty again and the file, already there, holds the 200 records
C14_Witness ==
    /\ prog = "fwd"
    /\ pc = "rows"
    /\ k = 2 * BUFF_TSHOLD
    /\ bg_bf = <<>>
    /\ DataLines(fs[OutPath(LastJob)].lines) = 2 * BUFF_TSHOLD

\* width of an output block: the force pair and a triple per destination point
OutWidth == 2 + 3 * n_dst(prog)

\* the Rbf call of timestep b for a component gives something non-finite
\* at destination point q
Faulty(b, comp, q) ==
    /\ fault.kind \in {"nan", "+inf", "-inf"}
    /\ fault.step = b /\ fault.comp = comp /\ fault.at = q

\* C15 (as claimed): the record built so far is the blocks of the
\* timesteps done so far, in order; output block b starts with the two
\* force fields of input block b, as they are in the input (texts, neither
\* parsed nor sanitized); then, for destination point q = 1..D, the values
\* at q of the interpolants of def_x, def_y and def_xy of input block b, at
\* positions 2+3(q-1), 2+3(q-1)+1, 2+3(q-1)+2 of the block.
C15_RecordLayout ==
    BlockAppended =>
        /\ Len(bf) = j * OutWidth
        /\ \A b \in 0..(j - 1) :
              /\ bf[b * OutWidth + 1] = row(b * BlockWidth)
              /\ bf[b * OutWidth + 2] = row(b * BlockWidth + 1)
              /\ \A comp \in Comps, q \in 1..n_dst(prog) :
                    LET v == bf[b * OutWidth + 2 + 3 * (q - 1) + TriplePos(comp) + 1]
                    IN  IF Faulty(b, comp, q)
                        THEN v \in {ZERO, FLOAT_MAX, FLOAT_MIN}
                        ELSE /\ v.kind = "interp"
                             /\ v.at = q
                             /\ v.of = b * BlockWidth + 2 + TriplePos(comp)

====
